---- MODULE Spec2Model ----
(***************************************************************************)
(* Model of the image container (src/src/image.rs) and of the portable     *)
(* scalar convolution for I32 pixels (src/src/convolution/i32x1/native.rs).*)
(*                                                                         *)
(* Filter weights are f64 values in the source.  They are modelled as      *)
(* exact rationals with the common denominator Den, so a weight k stands   *)
(* for k / Den and the accumulator ss stands for ss / Den.  The weights    *)
(* explored are -1/4, 1/2 and 1, for which the f64 products and sums of    *)
(* i32 pixels are exact, and the thirds of the box filter, whose f64 error *)
(* is far below the distance of the sums from a rounding boundary.         *)
(***************************************************************************)
EXTENDS Integers, Sequences, FiniteSets, TLC

VARIABLES src, dst, call, pending, owner,
          build, req, img, rows, inked, wrote

convVars == <<src, dst, call, pending, owner>>
imgVars == <<build, req, img, rows, inked, wrote>>
vars == <<src, dst, call, pending, owner, build, req, img, rows, inked, wrote>>

(***************************************************************************)
(* Bounds of the explored inputs.                                          *)
(***************************************************************************)
MaxW == 3
MaxH == 2
MaxTaps == 2
MaxOffset == 1
NumWorkers == 2
MaxDim == 2
MaxWrites == 2

(***************************************************************************)
(* Program constants.                                                      *)
(***************************************************************************)
\* common denominator of the weights 1/4, 1/2 and 1/3
Den == 4 * 3
I32Max == 2147483647
I32Min == -I32Max - 1
\* base of the wide numbers, 2^16
Base == 256 * 256

Min2(a, b) == IF a < b THEN a ELSE b
Max2(a, b) == IF a > b THEN a ELSE b

(***************************************************************************)
(* Inputs.                                                                 *)
(***************************************************************************)
\* -1/4, 1/2 and 1
Weights == {-3, 6, 12}
Pattern == <<5, -7, I32Max, I32Min>>
Seeds == 0 .. (Len(Pattern) - 1)
BoxRow == <<0, 3, 6, 9, 12>>

\* source view of h rows and w columns filled from Pattern
SrcInput(seed, w, h) ==
    [r \in 1 .. h |-> [c \in 1 .. w |->
        Pattern[((seed + (r - 1) * w + (c - 1)) % Len(Pattern)) + 1]]]

\* a destination pixel: v is the stored I32, w records that the call assigned it
\* destination view of h rows and w columns holding the values of an earlier use
DstInput(w, h) ==
    [r \in 1 .. h |-> [c \in 1 .. w |-> [v |-> 100 + 10 * r + c, w |-> FALSE]]]

Kernels == UNION {[1 .. n -> Weights] : n \in 1 .. MaxTaps}

\* coefficient chunks for a source axis of length srcLen: chunk d starts at
\* d * step + shift; with clip the window is truncated against [0, srcLen)
ChunkInput(ks, step, shift, clip, srcLen, d) ==
    LET s0 == d * step + shift
        s  == IF clip THEN Min2(s0, srcLen - 1) ELSE s0
        n  == IF clip THEN Min2(Len(ks), srcLen - s) ELSE Len(ks)
    IN [start |-> s, values |-> SubSeq(ks, 1, n)]

CoeffsInput(ks, step, shift, clip, srcLen, n) ==
    [i \in 1 .. n |-> ChunkInput(ks, step, shift, clip, srcLen, i - 1)]

\* 3-tap uniform box filter over an axis of length len (weights 1/3 inside,
\* 1/2 where the window is truncated at the border)
BoxCoeffs(len) ==
    [i \in 1 .. len |->
        LET s == Max2(0, i - 2)
            e == Min2(len, i + 1)
        IN [start |-> s,
            values |-> [k \in 1 .. (e - s) |-> Den \div (e - s)]]]

CoeffInputs(srcLen, dstLen) ==
    IF srcLen = Len(BoxRow)
    THEN {BoxCoeffs(srcLen)}
    ELSE {cf \in {CoeffsInput(ks, step, shift, clip, srcLen, n) :
                    ks \in Kernels, step \in 0 .. 1, shift \in 0 .. 1,
                    clip \in BOOLEAN,
                    n \in {m \in {dstLen - 1, dstLen} : m >= 1}} :
             \A i \in 1 .. Len(cf) : cf[i].start <= srcLen}

(***************************************************************************)
(* Wide numbers.  The checker's integers are 32 bits wide, the f64         *)
(* accumulator and the usize lengths of the source are not, so a value that*)
(* can leave the 32-bit range is kept as hi * Base + lo with               *)
(* 0 <= lo < Base.                                                         *)
(***************************************************************************)
WNorm(h, l) == [hi |-> h + (l \div Base), lo |-> l % Base]
WInt(n) == WNorm(0, n)
WAdd(x, y) == WNorm(x.hi + y.hi, x.lo + y.lo)
WSub(x, y) == WNorm(x.hi - y.hi, x.lo - y.lo)
WNeg(x) == WNorm(-x.hi, -x.lo)
\* x * k for a small k
WMulSmall(x, k) == WNorm(x.hi * k, x.lo * k)
\* floor(x / m) for a small positive m
WDivSmall(x, m) ==
    [hi |-> x.hi \div m, lo |-> ((x.hi % m) * Base + x.lo) \div m]
\* comparisons of a wide x with a small n >= 0
WLeqSmall(x, n) == x.hi < 0 \/ (x.hi = 0 /\ x.lo <= n)
WGeqNegSmall(x, n) == x.hi >= 0 \/ (x.hi = -1 /\ x.lo >= Base - n)

(***************************************************************************)
(* f64::round (ties away from zero) of ss / Den, then `as i32`, which      *)
(* saturates at the bounds of i32.                                         *)
(***************************************************************************)
Round(ss) ==
    IF ss.hi >= 0
    THEN WDivSmall(WAdd(WMulSmall(ss, 2), WInt(Den)), 2 * Den)
    ELSE WNeg(WDivSmall(WAdd(WMulSmall(WNeg(ss), 2), WInt(Den)), 2 * Den))

AsI32(x) ==
    IF x.hi > 32767 THEN I32Max
    ELSE IF x.hi < -32768 THEN I32Min
    ELSE x.hi * Base + x.lo

\* TypedImageView::iter_rows(offset): the rows from row index offset on
iter_rows(image_rows, offset) ==
    SubSeq(image_rows, offset + 1, Len(image_rows))

\* Coefficients::get_chunks
get_chunks(coeffs) == coeffs

\* for (&k, &pixel) in values.iter().zip(src_pixels) { ss += pixel.0 as f64 * k }
RECURSIVE Accumulate(_, _, _)
Accumulate(values, pixels, n) ==
    IF n = 0 THEN WInt(0)
    ELSE WAdd(Accumulate(values, pixels, n - 1),
              WMulSmall(WInt(pixels[n]), values[n]))

\* HorizPixel with the window taken from the start of the row
HorizPixelNoStart(src_row, coeffs_chunk) ==
    LET n == Min2(Len(coeffs_chunk.values), Len(src_row))
        ss == Accumulate(coeffs_chunk.values, src_row, n)
    IN [v |-> AsI32(Round(ss)), w |-> TRUE]

\* body of the loop over (dst_pixel, coeffs_chunk) of horiz_convolution
HorizPixel(src_row, coeffs_chunk) ==
    LET first_x_src == coeffs_chunk.start
        src_pixels == SubSeq(src_row, first_x_src + 1, Len(src_row))
        n == Min2(Len(coeffs_chunk.values), Len(src_pixels))
        ss == Accumulate(coeffs_chunk.values, src_pixels, n)
    IN [v |-> AsI32(Round(ss)), w |-> TRUE]

\* HorizRow that stores the pixels of the r-th pair through the row after it
HorizRowWritesNext(s, d, r, offset, coeffs) ==
    LET coefficients_chunks == get_chunks(coeffs)
        src_rows == iter_rows(s, offset)
        t == Min2(r + 1, Len(d))
    IN [d EXCEPT ![t] =
          [x \in 1 .. Len(d[t]) |->
              IF x <= Len(coefficients_chunks)
              THEN HorizPixel(src_rows[r], coefficients_chunks[x])
              ELSE d[t][x]]]

\* body of the loop over (dst_row, src_row) of horiz_convolution, for the
\* r-th pair of the zip
HorizRow(s, d, r, offset, coeffs) ==
    LET coefficients_chunks == get_chunks(coeffs)
        src_rows == iter_rows(s, offset)
    IN [d EXCEPT ![r] =
          [x \in 1 .. Len(d[r]) |->
              IF x <= Len(coefficients_chunks)
              THEN HorizPixel(src_rows[r], coefficients_chunks[x])
              ELSE d[r][x]]]

RECURSIVE HorizLoop(_, _, _, _, _)
HorizLoop(s, d, n, offset, coeffs) ==
    IF n = 0 THEN d
    ELSE HorizRow(s, HorizLoop(s, d, n - 1, offset, coeffs), n, offset, coeffs)

\* horiz_convolution that stops one row pair early
HorizStopsEarly(s, d, offset, coeffs) ==
    HorizLoop(s, d, Max2(0, Min2(Len(d), Len(iter_rows(s, offset))) - 1),
              offset, coeffs)

horiz_convolution(s, d, offset, coeffs) ==
    HorizLoop(s, d, Min2(Len(d), Len(iter_rows(s, offset))), offset, coeffs)

\* VertPixel with one traversal of the source rows shared by all columns of
\* the destination row: the columns after the first find it exhausted
VertPixelSharedRows(s, coeffs_chunk, x_src) ==
    LET first_y_src == coeffs_chunk.start
        src_rows == IF x_src = 1 THEN iter_rows(s, first_y_src) ELSE <<>>
        n == Min2(Len(src_rows), Len(coeffs_chunk.values))
        column == [k \in 1 .. n |-> src_rows[k][x_src]]
        ss == Accumulate(coeffs_chunk.values, column, n)
    IN [v |-> AsI32(Round(ss)), w |-> TRUE]

\* body of the loop over (x_src, dst_pixel) of vert_convolution
VertPixel(s, coeffs_chunk, x_src) ==
    LET first_y_src == coeffs_chunk.start
        src_rows == iter_rows(s, first_y_src)
        n == Min2(Len(src_rows), Len(coeffs_chunk.values))
        column == [k \in 1 .. n |-> src_rows[k][x_src]]
        ss == Accumulate(coeffs_chunk.values, column, n)
    IN [v |-> AsI32(Round(ss)), w |-> TRUE]

\* body of the loop over (coeffs_chunk, dst_row) of vert_convolution, for the
\* r-th pair of the zip
VertRow(s, d, r, coeffs) ==
    LET coefficients_chunks == get_chunks(coeffs)
    IN [d EXCEPT ![r] =
          [x \in 1 .. Len(d[r]) |-> VertPixel(s, coefficients_chunks[r], x)]]

RECURSIVE VertLoop(_, _, _, _)
VertLoop(s, d, n, coeffs) ==
    IF n = 0 THEN d
    ELSE VertRow(s, VertLoop(s, d, n - 1, coeffs), n, coeffs)

vert_convolution(s, d, coeffs) ==
    VertLoop(s, d, Min2(Len(get_chunks(coeffs)), Len(d)), coeffs)


(***************************************************************************)
(* Image container.                                                        *)
(***************************************************************************)
PixelTypes == {"U8", "U16", "U8x3", "U16x3", "U8x4", "I32", "F32"}

\* PixelType::size: bytes per pixel
PixelSize(pt) ==
    CASE pt = "U8" -> 1
      [] pt = "U16" -> 2
      [] pt = "U8x3" -> 3
      [] pt = "U16x3" -> 6
      [] pt = "U8x4" -> 4
      [] pt = "I32" -> 4
      [] pt = "F32" -> 4

\* alignment of the pixel type's scalar
PixelAlign(pt) ==
    CASE pt = "U8" -> 1
      [] pt = "U16" -> 2
      [] pt = "U8x3" -> 1
      [] pt = "U16x3" -> 2
      [] pt = "U8x4" -> 1
      [] pt = "I32" -> 4
      [] pt = "F32" -> 4

\* PixelType::is_aligned(buffer), for a buffer at address addr
is_aligned(pt, addr) == addr % PixelAlign(pt) = 0

\* bytes per element of a PixelsContainer
ElemSize(container) ==
    CASE container \in {"MutU32", "VecU32"} -> 4
      [] container \in {"MutU16", "VecU16"} -> 2
      [] container \in {"MutU8", "VecU8"} -> 1

\* a * b for 0 <= a, b < 2^31: the low 32 bits (what a u32 multiplication
\* keeps when overflow checks are off) and the exact product, both wide
MulU32(a, b) ==
    LET ah == a \div Base
        al == a % Base
        bh == b \div Base
        bl == b % Base
        t1 == al * (bl \div 256)
        t0 == al * (bl % 256)
        losum == (t1 % 256) * 256 + t0
        plo == losum % Base
        phi == (t1 \div 256) + (losum \div Base)
        x == ah * bl
        y == al * bh
        mid == (x % Base) + (y % Base) + phi
        top == ah * bh + (x \div Base) + (y \div Base) + (mid \div Base)
    IN [wrapped |-> [hi |-> mid % Base, lo |-> plo],
        exact |-> [hi |-> top * Base + (mid % Base), lo |-> plo],
        overflow |-> top > 0]

\* value of a wide number that fits the checker's integers
WToInt(x) == x.hi * Base + x.lo

NoImage ==
    [status |-> "none", width |-> 0, height |-> 0, pixel_type |-> "U8",
     container |-> "VecU8", len |-> WInt(0), addr |-> 0, fill |-> 0]

Failed(status) == [NoImage EXCEPT !.status = status]

\* `width.get() * height.get()` in u32: a build with overflow checks panics
\* when the product leaves u32, a build without them keeps the low 32 bits
PixelsCount(b, width, height) ==
    LET m == MulU32(width, height)
    IN [panic |-> b = "checked" /\ m.overflow, count |-> m.wrapped]

\* Image::new; the allocator hands out blocks aligned for every scalar
ImageNew(b, width, height, pixel_type) ==
    LET pc == PixelsCount(b, width, height)
        pixels_count == pc.count
        pixels ==
            CASE pixel_type = "U8x3" ->
                   [container |-> "VecU8",
                    len |-> WMulSmall(pixels_count, PixelSize("U8x3"))]
              [] pixel_type = "U16x3" ->
                   [container |-> "VecU8",
                    len |-> WMulSmall(pixels_count, PixelSize("U16x3"))]
              [] pixel_type \in {"U8x4", "I32", "F32"} ->
                   [container |-> "VecU32", len |-> pixels_count]
              [] pixel_type = "U8" ->
                   [container |-> "VecU8", len |-> pixels_count]
              [] pixel_type = "U16" ->
                   [container |-> "VecU16", len |-> pixels_count]
    IN IF pc.panic THEN Failed("panic")
       ELSE [status |-> "ok", width |-> width, height |-> height,
             pixel_type |-> pixel_type, container |-> pixels.container,
             len |-> pixels.len, addr |-> 0, fill |-> 0]

\* Image::from_vec_u32, from_slice_u32, from_slice_u16: buffer.len() is
\* compared with width * height
FromElems(b, width, height, buffer, pixel_type, container) ==
    LET pc == PixelsCount(b, width, height)
        size == pc.count
    IN IF pc.panic THEN Failed("panic")
       ELSE IF buffer.len # size THEN Failed("InvalidBufferSize")
       ELSE [status |-> "ok", width |-> width, height |-> height,
             pixel_type |-> pixel_type, container |-> container,
             len |-> buffer.len, addr |-> buffer.addr, fill |-> buffer.fill]

from_vec_u32(b, width, height, buffer, pixel_type) ==
    FromElems(b, width, height, buffer, pixel_type, "VecU32")

from_slice_u32(b, width, height, buffer, pixel_type) ==
    FromElems(b, width, height, buffer, pixel_type, "MutU32")

from_slice_u16(b, width, height, buffer, pixel_type) ==
    FromElems(b, width, height, buffer, pixel_type, "MutU16")

\* Image::from_vec_u8, from_slice_u8: buffer.len() is compared with
\* width * height * pixel_type.size(), then the alignment is checked
FromBytes(b, width, height, buffer, pixel_type, container) ==
    LET pc == PixelsCount(b, width, height)
        size == WMulSmall(pc.count, PixelSize(pixel_type))
    IN IF pc.panic THEN Failed("panic")
       ELSE IF buffer.len # size THEN Failed("InvalidBufferSize")
       ELSE IF ~is_aligned(pixel_type, buffer.addr)
       THEN Failed("InvalidBufferAlignment")
       ELSE [status |-> "ok", width |-> width, height |-> height,
             pixel_type |-> pixel_type, container |-> container,
             len |-> buffer.len, addr |-> buffer.addr, fill |-> buffer.fill]

from_vec_u8(b, width, height, buffer, pixel_type) ==
    FromBytes(b, width, height, buffer, pixel_type, "VecU8")

from_slice_u8(b, width, height, buffer, pixel_type) ==
    FromBytes(b, width, height, buffer, pixel_type, "MutU8")

\* Image::buffer / buffer_mut: length in bytes of the byte view
buffer_len(image) == WMulSmall(image.len, ElemSize(image.container))

\* slice::align_to::<P>().1 of n bytes at address addr: the bytes before the
\* first aligned address are left out, then as many whole P as fit
AlignTo(addr, n, align, size) ==
    LET prefix == (align - (addr % align)) % align
    IN IF prefix > n THEN [first |-> n, count |-> 0]
       ELSE [first |-> prefix, count |-> (n - prefix) \div size]

\* chunks of `width` pixels that share their last pixel with the next chunk
ChunksOverlapping(pixels, width, size) ==
    [i \in 1 .. (pixels.count \div width) |->
        [first |-> pixels.first + (i - 1) * (Max2(width - 1, 1)) * size,
         npix |-> width, size |-> size]]

\* slice::chunks_exact(width): whole chunks of `width` pixels, in order
ChunksExact(pixels, width, size) ==
    [i \in 1 .. (pixels.count \div width) |->
        [first |-> pixels.first + (i - 1) * width * size,
         npix |-> width, size |-> size]]

\* slice::chunks_mut(width): chunks of `width` pixels, the last one shorter
\* when the length is not a multiple of width
ChunksMut(pixels, width, size) ==
    [i \in 1 .. ((pixels.count + width - 1) \div width) |->
        [first |-> pixels.first + (i - 1) * width * size,
         npix |-> Min2(width, pixels.count - (i - 1) * width),
         size |-> size]]

\* Image::view / Image::view_mut: the rows handed to ImageView::new
view(image) ==
    LET buffer == WToInt(buffer_len(image))
        size == PixelSize(image.pixel_type)
        pixels == AlignTo(image.addr, buffer, PixelAlign(image.pixel_type), size)
    IN ChunksExact(pixels, image.width, size)

\* view_mut whose row segments overlap
ViewMutOverlapping(image) ==
    LET buffer == WToInt(buffer_len(image))
        size == PixelSize(image.pixel_type)
        pixels == AlignTo(image.addr, buffer, PixelAlign(image.pixel_type), size)
    IN ChunksOverlapping(pixels, image.width, size)

view_mut(image) ==
    LET buffer == WToInt(buffer_len(image))
        size == PixelSize(image.pixel_type)
        pixels == AlignTo(image.addr, buffer, PixelAlign(image.pixel_type), size)
    IN ChunksExact(pixels, image.width, size)

\* InnerImage::new over a slice of n pixels
InnerImageNew(width, height, n, size) ==
    ChunksMut([first |-> 0, count |-> n], width, size)

(***************************************************************************)
(* Inputs of the constructors.                                             *)
(***************************************************************************)
\* builds with overflow checks (the dev profile) and without (release)
Builds == {"checked", "wrapping"}
\* dimensions whose product leaves u32
OverflowDims == {<<65536, 65536>>, <<641, 6700417>>, <<4, 1073741825>>}
DimInputs == ((1 .. MaxDim) \X (1 .. MaxDim)) \cup OverflowDims
Addrs == 0 .. 3

\* buffer lengths (in elements) tried for dimensions w, h and pixel type pt
LenInputs(w, h, pt) ==
    LET m == MulU32(w, h)
    IN {m.exact, m.wrapped,
        WMulSmall(m.exact, PixelSize(pt)), WMulSmall(m.wrapped, PixelSize(pt)),
        WAdd(WMulSmall(m.exact, PixelSize(pt)), WInt(1)),
        WSub(WMulSmall(m.exact, PixelSize(pt)), WInt(1))}

BufferInputs(w, h, pt, elem) ==
    {[len |-> n, addr |-> a, fill |-> 7] :
        n \in LenInputs(w, h, pt), a \in {x \in Addrs : x % elem = 0}}

NoCall == [op |-> "none", offset |-> 0, coeffs |-> <<>>]

NoBuffer == [len |-> WInt(0), addr |-> 0, fill |-> 0]

Request(ctor, w, h, pt, buffer) ==
    [ctor |-> ctor, width |-> w, height |-> h, pixel_type |-> pt,
     buffer |-> buffer, view |-> "none"]

NoRequest == Request("none", 0, 0, "U8", NoBuffer)

ImgIdle ==
    /\ build = "checked"
    /\ req = NoRequest
    /\ img = NoImage
    /\ rows = <<>>
    /\ inked = {}
    /\ wrote = <<>>

ConvIdle ==
    /\ src = <<>>
    /\ dst = <<>>
    /\ call = NoCall
    /\ pending = {}
    /\ owner = <<>>

InitImg ==
    /\ ConvIdle
    /\ build \in Builds
    /\ req = NoRequest
    /\ img = NoImage
    /\ rows = <<>>
    /\ inked = {}
    /\ wrote = <<>>

Constructed(r, image) ==
    /\ req.ctor = "none"
    /\ req' = r
    /\ img' = image
    /\ rows' = <<>>
    /\ inked' = {}
    /\ wrote' = <<>>
    /\ UNCHANGED <<build, convVars>>

New ==
    \E d \in DimInputs, pt \in PixelTypes :
        Constructed(Request("new", d[1], d[2], pt, NoBuffer),
                    ImageNew(build, d[1], d[2], pt))

FromVecU32 ==
    \E d \in DimInputs, pt \in PixelTypes :
    \E buffer \in BufferInputs(d[1], d[2], pt, 4) :
        Constructed(Request("from_vec_u32", d[1], d[2], pt, buffer),
                    from_vec_u32(build, d[1], d[2], buffer, pt))

FromSliceU32 ==
    \E d \in DimInputs, pt \in PixelTypes :
    \E buffer \in BufferInputs(d[1], d[2], pt, 4) :
        Constructed(Request("from_slice_u32", d[1], d[2], pt, buffer),
                    from_slice_u32(build, d[1], d[2], buffer, pt))

FromSliceU16 ==
    \E d \in DimInputs, pt \in PixelTypes :
    \E buffer \in BufferInputs(d[1], d[2], pt, 2) :
        Constructed(Request("from_slice_u16", d[1], d[2], pt, buffer),
                    from_slice_u16(build, d[1], d[2], buffer, pt))

FromVecU8 ==
    \E d \in DimInputs, pt \in PixelTypes :
    \E buffer \in BufferInputs(d[1], d[2], pt, 1) :
        Constructed(Request("from_vec_u8", d[1], d[2], pt, buffer),
                    from_vec_u8(build, d[1], d[2], buffer, pt))

FromSliceU8 ==
    \E d \in DimInputs, pt \in PixelTypes :
    \E buffer \in BufferInputs(d[1], d[2], pt, 1) :
        Constructed(Request("from_slice_u8", d[1], d[2], pt, buffer),
                    from_slice_u8(build, d[1], d[2], buffer, pt))

\* InnerImage::new(width, height, pixels) over a slice of width * height
\* pixels, or of one pixel less
InnerNew ==
    \E w \in 1 .. MaxDim, h \in 1 .. MaxDim, pt \in PixelTypes :
    \E n \in {w * h, w * h - 1} :
        /\ req.ctor = "none"
        /\ req' = [Request("inner", w, h, pt,
                           [len |-> WInt(n), addr |-> 0, fill |-> 7])
                     EXCEPT !.view = "dst_view"]
        /\ img' = [status |-> "inner", width |-> w, height |-> h,
                   pixel_type |-> pt, container |-> "MutU8",
                   len |-> WInt(n * PixelSize(pt)), addr |-> 0,
                   fill |-> 7]
        /\ rows' = InnerImageNew(w, h, n, PixelSize(pt))
        /\ inked' = {}
        /\ wrote' = <<>>
        /\ UNCHANGED <<build, convVars>>

View ==
    /\ img.status = "ok"
    /\ req' = [req EXCEPT !.view = "view"]
    /\ rows' = view(img)
    /\ UNCHANGED <<build, img, inked, wrote, convVars>>

ViewMut ==
    /\ img.status = "ok"
    /\ req' = [req EXCEPT !.view = "view_mut"]
    /\ rows' = view_mut(img)
    /\ UNCHANGED <<build, img, inked, wrote, convVars>>

RowBytes(row) == row.first .. (row.first + row.npix * row.size - 1)

\* every byte of row i of a mutable view is overwritten
WriteRow ==
    /\ req.view \in {"view_mut", "dst_view"}
    /\ Len(wrote) < MaxWrites
    /\ \E i \in 1 .. Len(rows) :
          /\ inked' = inked \cup RowBytes(rows[i])
          /\ wrote' = Append(wrote, i)
    /\ UNCHANGED <<build, req, img, rows, convVars>>

NextImg ==
    \/ New
    \/ FromVecU32
    \/ FromSliceU32
    \/ FromSliceU16
    \/ FromVecU8
    \/ FromSliceU8
    \/ InnerNew
    \/ View
    \/ ViewMut
    \/ WriteRow

SpecImg == InitImg /\ [][NextImg]_vars

(***************************************************************************)
(* State machine of one convolution call.                                  *)
(***************************************************************************)
InitViews ==
    \/ \E sw \in 1 .. MaxW, sh \in 1 .. MaxH, seed \in Seeds,
          dw \in 1 .. MaxW, dh \in 1 .. MaxH :
          /\ src = SrcInput(seed, sw, sh)
          /\ dst = DstInput(dw, dh)
    \/ /\ src = <<BoxRow>>
       /\ dst = DstInput(Len(BoxRow), 1)

Init ==
    /\ InitViews
    /\ call = NoCall
    /\ pending = {}
    /\ owner = <<>>
    /\ ImgIdle

HorizConvolution ==
    /\ call.op = "none"
    /\ \E offset \in 0 .. MaxOffset :
       \E coeffs \in CoeffInputs(Len(src[1]), Len(dst[1])) :
          /\ offset <= Len(src)
          /\ call' = [op |-> "horiz", offset |-> offset, coeffs |-> coeffs]
          /\ dst' = horiz_convolution(src, dst, offset, coeffs)
    /\ UNCHANGED <<src, pending, owner, imgVars>>

VertConvolution ==
    /\ call.op = "none"
    /\ Len(dst[1]) <= Len(src[1])
    /\ \E coeffs \in CoeffInputs(Len(src), Len(dst)) :
          /\ call' = [op |-> "vert", offset |-> 0, coeffs |-> coeffs]
          /\ dst' = vert_convolution(src, dst, coeffs)
    /\ UNCHANGED <<src, pending, owner, imgVars>>

Next == HorizConvolution \/ VertConvolution

Spec == Init /\ [][Next]_vars


(***************************************************************************)
(* The same passes with the destination rows dealt out to workers: every   *)
(* worker runs the loop body of the pass for its own rows, the workers     *)
(* interleave freely.                                                      *)
(***************************************************************************)
ParKernels == [1 .. MaxTaps -> Weights]

ParCoeffInputs(srcLen, dstLen) ==
    {CoeffsInput(ks, step, 0, TRUE, srcLen, dstLen) :
        ks \in ParKernels, step \in 0 .. 1}

\* rows dealt out round-robin to n workers
Deal(height, n) == [r \in 1 .. height |-> ((r - 1) % n) + 1]

ParHorizStart ==
    /\ call.op = "none"
    /\ \E offset \in 0 .. MaxOffset :
       \E coeffs \in ParCoeffInputs(Len(src[1]), Len(dst[1])) :
       \E n \in 1 .. NumWorkers :
          /\ offset <= Len(src)
          /\ call' = [op |-> "horiz", offset |-> offset, coeffs |-> coeffs]
          /\ pending' = 1 .. Min2(Len(dst), Len(iter_rows(src, offset)))
          /\ owner' = Deal(Len(dst), n)
    /\ UNCHANGED <<src, dst, imgVars>>

ParVertStart ==
    /\ call.op = "none"
    /\ Len(dst[1]) <= Len(src[1])
    /\ \E coeffs \in ParCoeffInputs(Len(src), Len(dst)) :
       \E n \in 1 .. NumWorkers :
          /\ call' = [op |-> "vert", offset |-> 0, coeffs |-> coeffs]
          /\ pending' = 1 .. Min2(Len(get_chunks(coeffs)), Len(dst))
          /\ owner' = Deal(Len(dst), n)
    /\ UNCHANGED <<src, dst, imgVars>>

WorkerHorizRow(w) ==
    /\ call.op = "horiz"
    /\ \E r \in pending :
          /\ owner[r] = w
          /\ dst' = HorizRow(src, dst, r, call.offset, call.coeffs)
          /\ pending' = pending \ {r}
    /\ UNCHANGED <<src, call, owner, imgVars>>

WorkerVertRow(w) ==
    /\ call.op = "vert"
    /\ \E r \in pending :
          /\ owner[r] = w
          /\ dst' = VertRow(src, dst, r, call.coeffs)
          /\ pending' = pending \ {r}
    /\ UNCHANGED <<src, call, owner, imgVars>>

NextPar ==
    \/ ParHorizStart
    \/ ParVertStart
    \/ \E w \in 1 .. NumWorkers : WorkerHorizRow(w)
    \/ \E w \in 1 .. NumWorkers : WorkerVertRow(w)

SpecPar == Init /\ [][NextPar]_vars

\* the destination as the sequential pass of the source leaves it
SequentialResult ==
    LET before == DstInput(Len(dst[1]), Len(dst))
    IN IF call.op = "horiz"
       THEN horiz_convolution(src, before, call.offset, call.coeffs)
       ELSE IF call.op = "vert"
       THEN vert_convolution(src, before, call.coeffs)
       ELSE before

\* C9: with the destination rows partitioned among workers that interleave
\* freely, a row whose work has run holds what the sequential pass stores in
\* it, every other row still holds what it held before the call (no work
\* writes a row other than its own), and when all work has run the
\* destination equals the one of the sequential pass.
C9_RowParallel ==
    /\ \A r \in 1 .. Len(dst) :
          dst[r] = IF r \in pending
                   THEN DstInput(Len(dst[1]), Len(dst))[r]
                   ELSE SequentialResult[r]
    /\ pending = {} => dst = SequentialResult

\* two workers have each finished a row of their own and all work has run
C9_Witness ==
    /\ call.op \in {"horiz", "vert"}
    /\ pending = {}
    /\ Len(dst) >= 2
    /\ owner[1] # owner[2]
    /\ dst[1][1].w /\ dst[2][1].w

(***************************************************************************)
(* Properties of the convolution passes.                                   *)
(***************************************************************************)
\* sum over k of values[k] * line[start + k], as a wide numerator over Den
RECURSIVE WeightedSum(_, _, _, _)
WeightedSum(values, line, start, k) ==
    IF k = 0 THEN WInt(0)
    ELSE WAdd(WeightedSum(values, line, start, k - 1),
              WMulSmall(WInt(line[start + k]), values[k]))

\* twice the distance Den * (sum / Den - v)
TwiceOff(v, sum) == WMulSmall(WSub(sum, WMulSmall(WInt(v), Den)), 2)

\* v is an integer nearest to sum / Den
Nearest(v, sum) ==
    /\ WLeqSmall(TwiceOff(v, sum), Den)
    /\ WGeqNegSmall(TwiceOff(v, sum), Den)

\* v is an integer nearest to sum / Den, saturated to the range of i32
NearestSaturated(v, sum) ==
    /\ v < I32Max => WLeqSmall(TwiceOff(v, sum), Den)
    /\ v > I32Min => WGeqNegSmall(TwiceOff(v, sum), Den)

ChunksWithin(coeffs, srcLen) ==
    \A i \in 1 .. Len(coeffs) :
        coeffs[i].start + Len(coeffs[i].values) <= srcLen

HorizPre ==
    /\ call.op = "horiz"
    /\ Len(call.coeffs) = Len(dst[1])
    /\ ChunksWithin(call.coeffs, Len(src[1]))
    /\ Len(src) >= Len(dst) + call.offset

VertPre ==
    /\ call.op = "vert"
    /\ Len(call.coeffs) = Len(dst)
    /\ ChunksWithin(call.coeffs, Len(src))
    /\ Len(src[1]) = Len(dst[1])

HorizSum(r, d) ==
    LET chunk == call.coeffs[d]
    IN WeightedSum(chunk.values, src[r + call.offset], chunk.start,
                   Len(chunk.values))

VertSum(r, x) ==
    LET chunk == call.coeffs[r]
    IN WeightedSum(chunk.values, [y \in 1 .. Len(src) |-> src[y][x]],
                   chunk.start, Len(chunk.values))

BoxCall ==
    /\ src = <<BoxRow>>
    /\ call.op = "horiz"
    /\ call.coeffs = BoxCoeffs(Len(BoxRow))
    /\ call.offset = 0

\* C1 as stated: after horiz_convolution under its preconditions every
\* destination pixel dst[r][d] is an integer nearest to the sum over k of
\* coeffs[d].values[k] * src[r + offset][coeffs[d].start + k], and the 3-tap
\* box filter with chunk start 1 over the row [0, 3, 6, 9, 12] yields 6.
C1_AsStated ==
    /\ HorizPre =>
         \A r \in 1 .. Len(dst) : \A d \in 1 .. Len(dst[r]) :
            Nearest(dst[r][d].v, HorizSum(r, d))
    /\ BoxCall => call.coeffs[3].start = 1 /\ dst[1][3].v = 6

\* C1 amended: after horiz_convolution under its preconditions every
\* destination pixel dst[r][d] is the integer nearest to the weighted sum,
\* saturated to the range of i32 (the store is `ss.round() as i32`), and
\* the 3-tap box filter with chunk start 1 over [0, 3, 6, 9, 12] yields 6.
C1_HorizResult ==
    /\ HorizPre =>
         \A r \in 1 .. Len(dst) : \A d \in 1 .. Len(dst[r]) :
            NearestSaturated(dst[r][d].v, HorizSum(r, d))
    /\ BoxCall => call.coeffs[3].start = 1 /\ dst[1][3].v = 6

\* a horizontal pass under its preconditions, with a row offset, a window of
\* two taps, a window that does not start at column 0 and a saturated pixel
C1_Witness ==
    /\ HorizPre
    /\ call.offset > 0
    /\ \E d \in 1 .. Len(call.coeffs) : call.coeffs[d].start > 0
    /\ \E d \in 1 .. Len(call.coeffs) : Len(call.coeffs[d].values) >= 2
    /\ \E r \in 1 .. Len(dst) : \E d \in 1 .. Len(dst[r]) :
          dst[r][d].v = I32Max

\* C2 as stated: after vert_convolution under its preconditions every
\* destination pixel dst[r][x] is an integer nearest to the sum over k of
\* coeffs[r].values[k] * src[coeffs[r].start + k][x], for every column x
\* alike.
C2_AsStated ==
    VertPre =>
        \A r \in 1 .. Len(dst) : \A x \in 1 .. Len(dst[r]) :
            Nearest(dst[r][x].v, VertSum(r, x))

\* C2 amended: after vert_convolution under its preconditions every
\* destination pixel dst[r][x] is the integer nearest to the weighted sum of
\* column x over the rows of the chunk, saturated to the range of i32, for
\* every column x alike.
C2_VertResult ==
    VertPre =>
        \A r \in 1 .. Len(dst) : \A x \in 1 .. Len(dst[r]) :
            NearestSaturated(dst[r][x].v, VertSum(r, x))

\* a vertical pass under its preconditions over at least two columns, with a
\* window of two taps and a window that does not start at row 0
C2_Witness ==
    /\ VertPre
    /\ Len(dst[1]) >= 2
    /\ \E r \in 1 .. Len(call.coeffs) : call.coeffs[r].start > 0
    /\ \E r \in 1 .. Len(call.coeffs) : Len(call.coeffs[r].values) >= 2

AllWritten == \A r \in 1 .. Len(dst) : \A d \in 1 .. Len(dst[r]) : dst[r][d].w

\* C10 as stated: with len(coeffs) equal to the destination length along the
\* convolved axis, every chunk within the source axis and the views agreeing
\* in the other dimension (rows for the horizontal pass, columns for the
\* vertical pass), the call assigns every destination pixel, for any offset.
C10_AsStated ==
    /\ ( /\ call.op = "horiz"
         /\ Len(call.coeffs) = Len(dst[1])
         /\ ChunksWithin(call.coeffs, Len(src[1]))
         /\ Len(src) = Len(dst) ) => AllWritten
    /\ VertPre => AllWritten

\* C10 amended: the horizontal pass assigns every destination pixel when the
\* source view has a row r + offset for every destination row r (at least
\* offset + dst.height rows), the vertical pass when the columns agree.
C10_FullyWritten ==
    /\ HorizPre => AllWritten
    /\ VertPre => AllWritten

\* a horizontal pass with a positive offset whose source has the extra rows
C10_Witness ==
    /\ HorizPre
    /\ call.offset > 0
    /\ Len(dst) >= 1

(***************************************************************************)
(* Properties of the image container.                                      *)
(***************************************************************************)
ByteCtors == {"from_vec_u8", "from_slice_u8"}
ElemCtors == {"from_vec_u32", "from_slice_u32", "from_slice_u16"}

\* bytes per element of the buffer a constructor takes
CtorElem(ctor) ==
    CASE ctor \in {"from_vec_u32", "from_slice_u32"} -> 4
      [] ctor = "from_slice_u16" -> 2
      [] OTHER -> 1

\* width * height * pixel_byte_size of the request, exact
RequiredBytes ==
    WMulSmall(MulU32(req.width, req.height).exact, PixelSize(req.pixel_type))

SuppliedBytes == WMulSmall(req.buffer.len, CtorElem(req.ctor))

\* C3: from_vec_u8 and from_slice_u8 fail with InvalidBufferSize whenever
\* len(buffer) differs from width * height * pixel_byte_size, whatever the
\* alignment of the buffer, and produce no image.
C3_SizeChecked ==
    (req.ctor \in ByteCtors /\ SuppliedBytes # RequiredBytes)
        => img = Failed("InvalidBufferSize")

\* C4: from_slice_u16, from_vec_u32 and from_slice_u32 fail with
\* InvalidBufferSize whenever the length in bytes of the buffer differs from
\* width * height * pixel_byte_size of the requested pixel type, so the
\* images they return have a buffer of that many bytes.
C4_ElemSizeChecked ==
    req.ctor \in ElemCtors =>
        /\ SuppliedBytes # RequiredBytes => img = Failed("InvalidBufferSize")
        /\ img.status = "ok" => buffer_len(img) = RequiredBytes

\* C5: for a byte buffer of the correct length from_vec_u8 and
\* from_slice_u8 fail with InvalidBufferAlignment exactly when the scalar of
\* the pixel type is wider than one byte and the base address is not a
\* multiple of that width, and succeed otherwise; InvalidBufferSize and
\* InvalidBufferAlignment are the only failures of any constructor.
C5_AlignmentChecked ==
    /\ (req.ctor \in ByteCtors /\ SuppliedBytes = RequiredBytes) =>
          IF PixelAlign(req.pixel_type) > 1
             /\ req.buffer.addr % PixelAlign(req.pixel_type) # 0
          THEN img.status = "InvalidBufferAlignment"
          ELSE img.status = "ok"
    /\ req.ctor \in (ByteCtors \cup ElemCtors \cup {"new"}) =>
          img.status \in {"ok", "InvalidBufferSize", "InvalidBufferAlignment"}

\* C6: for every image a constructor returned, view() and view_mut() yield
\* exactly height rows of exactly width pixels of the image's pixel type,
\* row i starting at pixel index i * width, that cover the whole buffer.
C6_ViewShape ==
    (img.status = "ok" /\ req.view \in {"view", "view_mut"}) =>
        LET size == PixelSize(img.pixel_type)
        IN /\ Len(rows) = img.height
           /\ \A i \in 1 .. Len(rows) :
                 /\ rows[i].npix = img.width
                 /\ rows[i].size = size
                 /\ rows[i].first = (i - 1) * img.width * size
           /\ buffer_len(img) = WInt(Len(rows) * img.width * size)

RowsDisjoint ==
    \A i, j \in 1 .. Len(rows) :
        i # j => RowBytes(rows[i]) \cap RowBytes(rows[j]) = {}

\* a step that overwrote a row changed no byte of any other row
OtherRowsKept ==
    Len(wrote') > Len(wrote) =>
        \A j \in 1 .. Len(rows) :
            j # wrote'[Len(wrote')] =>
                RowBytes(rows[j]) \cap inked' = RowBytes(rows[j]) \cap inked

\* C7: the rows of view_mut() and of InnerImage::new are pairwise
\* non-overlapping ranges of the buffer, and fully overwriting row i leaves
\* every byte of every other row unchanged.
C7_RowsDisjoint ==
    /\ [](req.view \in {"view_mut", "dst_view"} => RowsDisjoint)
    /\ [][OtherRowsKept]_vars

\* row 2 of a mutable view of at least two rows of two-byte or wider pixels
\* has been overwritten while row 1 has not
C7_Witness ==
    /\ req.view = "view_mut"
    /\ Len(rows) >= 2
    /\ rows[1].npix * rows[1].size >= 2
    /\ wrote = <<2>>
    /\ RowBytes(rows[2]) \subseteq inked
    /\ RowBytes(rows[1]) \cap inked = {}

\* C8: Image::new succeeds for all positive 32-bit dimensions and every
\* pixel type, and the image has the given width, height and pixel type and
\* a buffer of exactly width * height * pixel_byte_size bytes, all zero.
C8_NewAlwaysSucceeds ==
    req.ctor = "new" =>
        /\ img.status = "ok"
        /\ img.width = req.width
        /\ img.height = req.height
        /\ img.pixel_type = req.pixel_type
        /\ buffer_len(img) = RequiredBytes
        /\ img.fill = 0

====
